---- MODULE Spec2Model ----
(***************************************************************************)
(* A model of do-snapshot.py: the duration parser, the tiered retention    *)
(* engine (apply_retention_policies), region sync, the snapshot scheduler  *)
(* (process_droplet) and the two drivers of main (live run, simulation).   *)
(*                                                                         *)
(* Time is counted in hours: a datetime is a number of hours since an      *)
(* arbitrary epoch, a timedelta a number of hours.  A 'created_at' string  *)
(* is the record [t |-> hours, z |-> "Z"]: its first 19 characters (the    *)
(* part strptime reads) and the zone suffix that created_at[:19] cuts off. *)
(***************************************************************************)
EXTENDS Integers, Sequences, FiniteSets, TLC

VARIABLES
    pc,           \* where the program is
    args,         \* the parsed command line
    hashorder,    \* the order in which this process iterates a set of regions
    policies,     \* main: the retention policies, sorted
    min_age,      \* main: the parsed --snapshot age
    now,          \* main: the reference time (the simulation's clock)
    tick,         \* main: the simulation's tick interval
    end,          \* main: the simulation's end time
    snapshot_id,  \* main: the next value of idgen
    droplets,     \* main: the number of droplets listed
    di,           \* main: the droplet the loop is at
    processed,    \* the droplets whose process_droplet call returned
    snapshots,    \* main: the snapshot list
    result,       \* the last process_droplet call
    sent,         \* the requests the last step sent to the remote API
    error,        \* the exception (or fatal message) that ended the run
    status,       \* the exit status of the process
    ret,          \* the retention engine alone: the first call
    again,        \* the retention engine alone: the second call
    clean,        \* the retention engine alone: the call the second is compared with
    twin          \* the snapshot list of a second simulation with the same arguments

mainvars == <<hashorder, tick, end, snapshot_id, droplets, di, processed, result,
              sent, error, status, twin>>

vars == <<pc, args, policies, min_age, now, snapshots, ret, again, clean, mainvars>>

(***************************************************************************)
(* Bounds of the model.                                                    *)
(***************************************************************************)
MaxSnaps == 3      \* snapshots in one listing given to the retention engine
MaxTiers == 2      \* -k arguments on the command line

\* The hours of the model: the magnitudes of the duration tokens and the
\* creation times of listed snapshots.
Hours == {0, 1, 2}
LastHour == CHOOSE h \in Hours : \A g \in Hours : g <= h

Range(s) == {s[i] : i \in 1..Len(s)}
Last(s) == s[Len(s)]
Front(s) == SubSeq(s, 1, Len(s) - 1)

\* Sequences over S of length at most n.
SeqsUpTo(S, n) == UNION {[1..k -> S] : k \in 0..n}

(***************************************************************************)
(* Duration tokens.  A token is the text of one duration argument:         *)
(* 'numeric' says whether int(interval[:-1]) succeeds, 'mag' is its value, *)
(* 'suf' is interval[-1] ("" for the empty string, which has no last       *)
(* character).                                                             *)
(***************************************************************************)
Tok(mag, suf) == [mag |-> mag, numeric |-> TRUE, suf |-> suf]

\* suffixmap: hours per unit of each supported suffix ('m' is 30 days).
suffixmap == [d |-> 24, h |-> 1, m |-> 24 * 30, w |-> 24 * 7]

Ok(v) == [err |-> "none", val |-> v]
Raise(e) == [err |-> e, val |-> 0]

\* parse_interval: the suffix is looked up first (KeyError -> ValueError),
\* then the magnitude is converted (ValueError); the empty string raises
\* IndexError at interval[-1].
parse_interval(interval) ==
    IF interval.suf = "" THEN Raise("IndexError")
    ELSE IF interval.suf \notin DOMAIN suffixmap THEN Raise("ValueError")
    ELSE IF ~interval.numeric THEN Raise("ValueError")
    ELSE Ok(suffixmap[interval.suf] * interval.mag)

(***************************************************************************)
(* The policy list of main: each -k argument is split at ':' (here already *)
(* a sequence of tokens), both parts parsed, and the list sorted by        *)
(* threshold age, oldest first.  list.sort is stable, also with reverse.   *)
(***************************************************************************)
Policy(interval, age) == [interval |-> interval, age |-> age]

\* (mutant) the policies are left in command-line order.
InsertByAgeAppend(sorted, p) == Append(sorted, p)

\* Position of p in a list sorted by descending age: after every element
\* whose age is >= p.age (stable).
InsertByAge(sorted, p) ==
    LET k == Cardinality({i \in 1..Len(sorted) : sorted[i].age >= p.age})
    IN SubSeq(sorted, 1, k) \o <<p>> \o SubSeq(sorted, k + 1, Len(sorted))

RECURSIVE SortPolicies(_)
SortPolicies(ps) ==
    IF ps = <<>> THEN <<>>
    ELSE InsertByAge(SortPolicies(Front(ps)), Last(ps))

\* One -k argument: ValueError unless the split yields exactly two parts.
ParseKeep(keep) ==
    IF Len(keep) # 2 THEN Raise("ValueError")
    ELSE LET i == parse_interval(keep[1])
             a == parse_interval(keep[2])
         IN IF i.err # "none" THEN Raise(i.err)
            ELSE IF a.err # "none" THEN Raise(a.err)
            ELSE Ok(Policy(i.val, a.val))

RECURSIVE ParseKeeps(_)
ParseKeeps(keeps) ==
    IF keeps = <<>> THEN Ok(<<>>)
    ELSE LET p == ParseKeep(Head(keeps))
         IN IF p.err # "none" THEN Raise(p.err)
            ELSE LET rest == ParseKeeps(Tail(keeps))
                 IN IF rest.err # "none" THEN Raise(rest.err)
                    ELSE Ok(<<p.val>> \o rest.val)

ParsePolicies(keeps) ==
    LET ps == ParseKeeps(keeps)
    IN IF ps.err # "none" THEN ps ELSE Ok(SortPolicies(ps.val))

(***************************************************************************)
(* Snapshots.                                                              *)
(***************************************************************************)
strftime(t) == [t |-> t, z |-> "Z"]
strptime(created_at) == created_at.t

Snapshot(id, name, t, regions) ==
    [id |-> id, name |-> name, created_at |-> strftime(t), regions |-> regions]

\* The sort key s['created_at']: strings of one format and one zone, so the
\* first 19 characters decide the order.
KeyLeq(a, b) == a.created_at.t <= b.created_at.t

\* (mutant) the list is sorted newest first.
InsertByCreatedDesc(sorted, s) ==
    LET k == Cardinality({i \in 1..Len(sorted) : KeyLeq(s, sorted[i])})
    IN SubSeq(sorted, 1, k) \o <<s>> \o SubSeq(sorted, k + 1, Len(sorted))

InsertByCreated(sorted, s) ==
    LET k == Cardinality({i \in 1..Len(sorted) : KeyLeq(sorted[i], s)})
    IN SubSeq(sorted, 1, k) \o <<s>> \o SubSeq(sorted, k + 1, Len(sorted))

\* (mutant) the list is left in the order given.
SortByCreatedSkipped(snaps) == snaps

\* list.sort / sorted by created_at: stable.
RECURSIVE SortByCreated(_)
SortByCreated(snaps) ==
    IF snaps = <<>> THEN <<>>
    ELSE InsertByCreated(SortByCreated(Front(snaps)), Last(snaps))

(***************************************************************************)
(* api: with dryrun the call is skipped, otherwise the request goes out.   *)
(* The value is the sequence of requests that reach the remote API.        *)
(***************************************************************************)
Call(type, target, arg) == [type |-> type, target |-> target, arg |-> arg]

\* (mutant) the dryrun flag is ignored.
apiIgnoresDryrun(call, dryrun) == <<call>>

api(call, dryrun) == IF dryrun THEN <<>> ELSE <<call>>

RECURSIVE ApiAll(_, _)
ApiAll(calls, dryrun) ==
    IF calls = <<>> THEN <<>>
    ELSE api(Head(calls), dryrun) \o ApiAll(Tail(calls), dryrun)

(***************************************************************************)
(* apply_retention_policies.  The keys 'created_dt' and 'age' that the     *)
(* code writes into each snapshot dictionary are the maps created_dt and   *)
(* age of the value, indexed by snapshot id.                               *)
(***************************************************************************)
\* (mutant) a snapshot that reaches no threshold falls to the last policy.
FirstPolicyElseLast(pols, snapshot_age) ==
    LET hits == {i \in 1..Len(pols) : snapshot_age >= pols[i].age}
    IN IF hits = {} THEN Len(pols) ELSE CHOOSE i \in hits : \A j \in hits : i <= j

\* The first policy, in list order, whose threshold the age reaches (the
\* loop with break); 0 when there is none.
FirstPolicy(pols, snapshot_age) ==
    LET hits == {i \in 1..Len(pols) : snapshot_age >= pols[i].age}
    IN IF hits = {} THEN 0 ELSE CHOOSE i \in hits : \A j \in hits : i <= j

\* The dictionary key (interval, age) a snapshot is filed under, as a
\* sequence: <<>> when no policy applies.
PolicyKey(pols, snapshot_age) ==
    LET i == FirstPolicy(pols, snapshot_age)
    IN IF i = 0 THEN <<>> ELSE <<pols[i]>>

\* The keys of snapshots_by_policy in insertion order.
RECURSIVE GroupKeys(_, _, _)
GroupKeys(sorted, pols, t) ==
    IF sorted = <<>> THEN <<>>
    ELSE LET before == GroupKeys(Front(sorted), pols, t)
             k == PolicyKey(pols, t - strptime(Last(sorted).created_at))
         IN IF k = <<>> \/ k[1] \in Range(before) THEN before
            ELSE Append(before, k[1])

\* (mutant) the test for a zero interval is missing.
RECURSIVE ThinTierNoZero(_, _, _)
ThinTierNoZero(members, interval, last_kept) ==
    IF members = <<>> THEN <<>>
    ELSE LET s == Head(members)
             dt == strptime(s.created_at)
         IN IF last_kept # <<>> /\ dt - last_kept[1] < interval
            THEN <<s.id>> \o ThinTierNoZero(Tail(members), interval, last_kept)
            ELSE ThinTierNoZero(Tail(members), interval, <<dt>>)

\* (mutant) last_kept follows every snapshot considered, kept or not.
RECURSIVE ThinTierPrev(_, _, _)
ThinTierPrev(members, interval, last_kept) ==
    IF members = <<>> THEN <<>>
    ELSE LET s == Head(members)
             dt == strptime(s.created_at)
         IN IF interval = 0 \/ (last_kept # <<>> /\ dt - last_kept[1] < interval)
            THEN <<s.id>> \o ThinTierPrev(Tail(members), interval, <<dt>>)
            ELSE ThinTierPrev(Tail(members), interval, <<dt>>)

\* The thinning loop over one policy's snapshots, oldest first: the ids of
\* the snapshots it deletes, in order.  last_kept is <<>> for None.
RECURSIVE ThinTier(_, _, _)
ThinTier(members, interval, last_kept) ==
    IF members = <<>> THEN <<>>
    ELSE LET s == Head(members)
             dt == strptime(s.created_at)
         IN IF interval = 0 \/ (last_kept # <<>> /\ dt - last_kept[1] < interval)
            THEN <<s.id>> \o ThinTier(Tail(members), interval, last_kept)
            ELSE ThinTier(Tail(members), interval, <<dt>>)

RECURSIVE ThinAll(_)
ThinAll(groups) ==
    IF groups = <<>> THEN <<>>
    ELSE ThinTier(Head(groups).members, Head(groups).key.interval, <<>>)
         \o ThinAll(Tail(groups))

\* (mutant) a deleted snapshot is not removed from snapshots_by_id.
SurvivorsKeepAll(snaps, deleted) == SortByCreated(snaps)

\* (mutant) the values of snapshots_by_id are returned without sorting.
SurvivorsUnsorted(snaps, deleted) ==
    LET Alive(s) == s.id \notin Range(deleted)
    IN SelectSeq(snaps, Alive)

\* What is left of snapshots_by_id, sorted by created_at.
Survivors(snaps, deleted) ==
    LET Alive(s) == s.id \notin Range(deleted)
    IN SortByCreated(SelectSeq(snaps, Alive))

\* snapshot['created_dt'] and snapshot['age'], by snapshot id.
CreatedDt(snaps) ==
    [id \in {s.id : s \in Range(snaps)} |->
        strptime((CHOOSE s \in Range(snaps) : s.id = id).created_at)]

Age(snaps, t) ==
    [id \in {s.id : s \in Range(snaps)} |->
        t - strptime((CHOOSE s \in Range(snaps) : s.id = id).created_at)]

\* snapshots_by_policy: for each key, in insertion order, its snapshots,
\* oldest first.
GroupMembers(sorted, pols, t, k) ==
    LET Filed(s) == PolicyKey(pols, t - strptime(s.created_at)) = <<k>>
    IN SelectSeq(sorted, Filed)

ByPolicy(sorted, pols, t, keys) ==
    [i \in 1..Len(keys) |->
        [key |-> keys[i], members |-> GroupMembers(sorted, pols, t, keys[i])]]

DeleteCalls(deleted) == [i \in 1..Len(deleted) |-> Call("delete", deleted[i], "")]

\* The value of one call: the list as sorted in place, the keys written into
\* the snapshots, the groups, the ids deleted (in the order of the delete
\* calls), the api invocations and the list returned.
Retained(snaps, t, sorted, by_policy, deleted) ==
    [sorted |-> sorted,
     created_dt |-> CreatedDt(snaps),
     age |-> Age(snaps, t),
     by_policy |-> by_policy,
     deleted |-> deleted,
     calls |-> DeleteCalls(deleted),
     survivors |-> Survivors(snaps, deleted)]

Thinned(snaps, t, sorted, by_policy) ==
    Retained(snaps, t, sorted, by_policy, ThinAll(by_policy))

Grouped(snaps, pols, t, sorted) ==
    Thinned(snaps, t, sorted, ByPolicy(sorted, pols, t, GroupKeys(sorted, pols, t)))

apply_retention_policies(snaps, pols, t) ==
    Grouped(snaps, pols, t, SortByCreated(snaps))

(***************************************************************************)
(* Region sync.  A region list built from a set (line 134) and the loop    *)
(* over the set 'missing' follow the process's iteration order.            *)
(***************************************************************************)
Regions == {"nyc", "sfo"}

SetToSeq(order, S) == LET In(r) == r \in S IN SelectSeq(order, In)

\* ensure_snapshot_regions: one transfer call per missing region.
ensure_snapshot_regions(snapshot, regions, order) ==
    LET missing == SetToSeq(order, Range(regions) \ Range(snapshot.regions))
    IN [i \in 1..Len(missing) |-> Call("transfer", snapshot.id, missing[i])]

\* (mutant) the in-memory region list is not updated after the transfers.
UpdateRegionsSkipped(snapshot, regions, order) == snapshot

\* (mutant) only the first region that the iteration yields is recorded.
UpdateRegionsFirst(snapshot, regions, order) ==
    [snapshot EXCEPT !.regions =
        SubSeq(SetToSeq(order, Range(snapshot.regions) \cup Range(regions)), 1, 1)]

\* (mutant) symmetric_difference in place of union.
UpdateRegionsToggle(snapshot, regions, order) ==
    [snapshot EXCEPT !.regions =
        SetToSeq(order, (Range(snapshot.regions) \ Range(regions))
                        \cup (Range(regions) \ Range(snapshot.regions)))]

\* snapshot['regions'] = list(set(snapshot['regions']).union(args.region))
UpdateRegions(snapshot, regions, order) ==
    [snapshot EXCEPT !.regions = SetToSeq(order, Range(snapshot.regions) \cup Range(regions))]

RECURSIVE TransferCalls(_, _, _)
TransferCalls(survivors, regions, order) ==
    IF survivors = <<>> THEN <<>>
    ELSE ensure_snapshot_regions(Head(survivors), regions, order)
         \o TransferCalls(Tail(survivors), regions, order)

(***************************************************************************)
(* process_droplet.                                                        *)
(*   plan   the api invocations of a call that nothing interrupts          *)
(*   calls  the api invocations made                                       *)
(*   sent   the requests that reached the remote API                       *)
(* Raised(p, k), k > 0: the k-th request that the call sends fails with a  *)
(* network fault, which requests raises as an exception that ends the      *)
(* call there; a 4xx answer is logged by api and changes nothing.          *)
(***************************************************************************)
\* (mutant) > in place of >=.
SnapshotDueStrict(r, minage) ==
    r.sorted = <<>> \/ r.age[Last(r.sorted).id] > minage

\* The scheduler's test: it reads the list that the engine sorted in place
\* and the 'age' the engine wrote into its last element.
SnapshotDue(r, minage) ==
    r.sorted = <<>> \/ r.age[Last(r.sorted).id] >= minage

\* now.strftime(prefix + '%Y%m%dT%H%M%SZ')
SnapshotName(t) == <<"auto", t>>

SyncCalls(survivors, regions, order) ==
    IF regions # <<>> THEN TransferCalls(survivors, regions, order) ELSE <<>>

Synced(survivors, regions, order) ==
    IF regions # <<>>
    THEN [i \in 1..Len(survivors) |-> UpdateRegions(survivors[i], regions, order)]
    ELSE survivors

CreateCall(droplet, due, t) ==
    IF due THEN <<Call("snapshot", droplet, SnapshotName(t))>> ELSE <<>>

Processed(r, survivors, due, t, plan, reach) ==
    [ret |-> r,
     survivors |-> survivors,
     due |-> due,
     snapshot_name |-> SnapshotName(t),
     plan |-> plan,
     calls |-> plan,
     sent |-> reach,
     raised |-> "none"]

Requested(r, survivors, due, t, plan, dryrun) ==
    Processed(r, survivors, due, t, plan, ApiAll(plan, dryrun))

Scheduled(droplet, r, due, t, regions, dryrun, order) ==
    Requested(r, Synced(r.survivors, regions, order), due, t,
              r.calls \o SyncCalls(r.survivors, regions, order) \o CreateCall(droplet, due, t),
              dryrun)

Retention(droplet, r, minage, t, regions, dryrun, order) ==
    Scheduled(droplet, r, SnapshotDue(r, minage), t, regions, dryrun, order)

process_droplet(droplet, snaps, pols, minage, t, regions, dryrun, order) ==
    Retention(droplet, apply_retention_policies(snaps, pols, t), minage, t, regions,
              dryrun, order)

Raised(p, raise_at) ==
    IF raise_at \in 1..Len(p.sent)
    THEN [p EXCEPT !.calls = SubSeq(p.plan, 1, raise_at),
                   !.sent = SubSeq(p.sent, 1, raise_at),
                   !.raised = "ConnectionError"]
    ELSE p

(***************************************************************************)
(* The command line.                                                       *)
(*   keep      the -k arguments, each already split at ':'                 *)
(*   snapshot  the -s token                                                *)
(*   region    the -r arguments                                            *)
(*   simulate  <<>> when absent, else <<the argument split at ':'>>        *)
(*   token     whether --token or DO_TOKEN gives a token                   *)
(***************************************************************************)
Args(keep, snapshot, region, dryrun, simulate, token) ==
    [keep |-> keep, snapshot |-> snapshot, region |-> region, dryrun |-> dryrun,
     simulate |-> simulate, token |-> token]

HourToks == {Tok(n, "h") : n \in Hours}
KeepArgs == {<<i, a>> : i \in HourToks, a \in HourToks}

\* A listing: snapshot i has id base + i; 'home' is its region list.
Listing(times, base, home) ==
    [i \in 1..Len(times) |-> Snapshot(base + i, <<"auto", base + i>>, times[i], home)]

NoRetention == apply_retention_policies(<<>>, <<>>, 0)
NoResult == Processed(NoRetention, <<>>, FALSE, 0, <<>>, <<>>)

(***************************************************************************)
(* The retention engine on its own: the policies are parsed and sorted as  *)
(* main does, the engine is called on a listing, and called again on the   *)
(* survivors with the same policies and the same reference time.           *)
(***************************************************************************)
Listings == {Listing(ts, 0, <<>>) : ts \in SeqsUpTo(Hours, MaxSnaps)}

RetArgs(keep) == Args(keep, Tok(0, "h"), <<>>, TRUE, <<>>, TRUE)

\* The example of the specification: one policy 5d:7d, snapshots aged 10,
\* 9, 8 and 1 days.
ExampleArgs == RetArgs(<<<<Tok(5, "d"), Tok(7, "d")>>>>)
ExampleNow == 10 * 24
ExampleListing == Listing(<<0, 24, 2 * 24, 9 * 24>>, 0, <<>>)

Idle ==
    /\ hashorder = <<"nyc", "sfo">>
    /\ tick = 0
    /\ end = 0
    /\ snapshot_id = 0
    /\ droplets = 0
    /\ di = 0
    /\ processed = {}
    /\ result = NoResult
    /\ sent = <<>>
    /\ error = "none"
    /\ status = 0
    /\ twin = <<>>

RetInit ==
    /\ pc = "ret_start"
    /\ \/ /\ args \in {RetArgs(k) : k \in SeqsUpTo(KeepArgs, MaxTiers)}
          /\ now = LastHour
          /\ snapshots \in Listings
       \/ /\ args = ExampleArgs
          /\ now = ExampleNow
          /\ snapshots = ExampleListing
    /\ policies = ParsePolicies(args.keep).val
    /\ min_age = 0
    /\ ret = NoRetention
    /\ again = NoRetention
    /\ clean = NoRetention
    /\ Idle

RetFirst ==
    /\ pc = "ret_start"
    /\ ret' = apply_retention_policies(snapshots, policies, now)
    /\ pc' = "ret_first"
    /\ UNCHANGED <<args, policies, min_age, now, snapshots, again, clean, mainvars>>

RetSecond ==
    /\ pc = "ret_first"
    /\ again' = apply_retention_policies(ret.survivors, policies, now)
    /\ pc' = "ret_second"
    /\ UNCHANGED <<args, policies, min_age, now, snapshots, ret, clean, mainvars>>

RetNext == RetFirst \/ RetSecond

RetSpec == RetInit /\ [][RetNext]_vars

(***************************************************************************)
(* The retention engine called a second time on another listing of the    *)
(* same droplet: the same snapshots in another order, or, after some of    *)
(* the delete requests failed, the survivors and the snapshots that were   *)
(* not deleted, at the same or a later reference time.                     *)
(***************************************************************************)
\* One or two tiers: a second tier is what separates two snapshots of one
\* tier as they age.
OrderKeeps == SeqsUpTo(KeepArgs, 2)

\* How much later the next cycle runs.
Delays == {0, 1}

Reversed(s) == [i \in 1..Len(s) |-> s[Len(s) + 1 - i]]

\* The snapshots that still exist when the deletes of F failed, in the
\* order of the first listing.
Relisted(F) ==
    LET Exists(s) == s.id \in {k.id : k \in Range(ret.survivors)} \cup F
    IN SelectSeq(snapshots, Exists)

OrderInit ==
    /\ pc = "ret_start"
    /\ args \in {RetArgs(k) : k \in OrderKeeps}
    /\ now = LastHour
    /\ snapshots \in Listings
    /\ policies = ParsePolicies(args.keep).val
    /\ min_age = 0
    /\ ret = NoRetention
    /\ again = NoRetention
    /\ clean = NoRetention
    /\ Idle

RetReorder ==
    /\ pc = "ret_first"
    /\ \E perm \in Permutations(1..Len(snapshots)) :
          /\ snapshots' = [i \in 1..Len(snapshots) |-> snapshots[perm[i]]]
          /\ again' = apply_retention_policies(snapshots', policies, now)
    /\ pc' = "ret_reorder"
    /\ UNCHANGED <<args, policies, min_age, now, ret, clean, mainvars>>

RetReconcile ==
    /\ pc = "ret_first"
    /\ \E F \in SUBSET Range(ret.deleted), delay \in Delays :
       \E l \in {Relisted(F), Reversed(Relisted(F))} :
          /\ snapshots' = l
          /\ now' = now + delay
          /\ again' = apply_retention_policies(l, policies, now + delay)
          /\ clean' = apply_retention_policies(ret.survivors, policies, now + delay)
    /\ pc' = "ret_reconcile"
    /\ UNCHANGED <<args, policies, min_age, ret, mainvars>>

OrderNext == RetFirst \/ RetReorder \/ RetReconcile

OrderSpec == OrderInit /\ [][OrderNext]_vars

(***************************************************************************)
(* main.                                                                   *)
(***************************************************************************)
MaxDroplets == 2   \* droplets the tag lists
MaxListed == 2     \* autosnapshots in one droplet's listing
MaxRaise == 3      \* a network fault hits one of the first MaxRaise requests of a cycle
MaxTicks == 5      \* iterations of the simulation loop

\* The handlers around main(): a ValueError is logged with log.fatal and
\* the process ends normally; any other exception is logged and the
\* process exits with status 1.
ExitStatus(exc) == IF exc = "ValueError" THEN 0 ELSE 1

RegionArgs == {<<>>, <<"nyc", "sfo">>}
HashOrders == {<<"nyc", "sfo">>, <<"sfo", "nyc">>}
SimDurations == {Tok(LastHour + 1, "h"), Tok(LastHour + 2, "h")}

LiveArgs ==
    {Args(k, s, r, d, <<>>, TRUE) :
        k \in SeqsUpTo(KeepArgs, 1), s \in HourToks, r \in RegionArgs, d \in BOOLEAN}

SimArgs ==
    {Args(k, s, r, FALSE, <<<<i, d>>>>, FALSE) :
        k \in SeqsUpTo(KeepArgs, MaxTiers), s \in HourToks,
        r \in RegionArgs, i \in HourToks, d \in SimDurations}

\* Command lines that main refuses.
BadArgs ==
    {Args(<<>>, Tok(1, "x"), <<>>, FALSE, <<>>, TRUE),
     Args(<<>>, [mag |-> 0, numeric |-> FALSE, suf |-> "h"], <<>>, FALSE, <<>>, TRUE),
     Args(<<>>, Tok(0, ""), <<>>, FALSE, <<>>, TRUE),
     Args(<<<<Tok(1, "h")>>>>, Tok(1, "h"), <<>>, FALSE, <<>>, TRUE),
     Args(<<<<Tok(1, "h"), Tok(1, "h"), Tok(1, "h")>>>>, Tok(1, "h"), <<>>, FALSE, <<>>, TRUE),
     Args(<<<<Tok(1, "h"), Tok(1, "y")>>>>, Tok(1, "h"), <<>>, FALSE, <<>>, TRUE),
     Args(<<>>, Tok(1, "h"), <<>>, FALSE, <<<<Tok(1, "h")>>>>, FALSE),
     Args(<<>>, Tok(1, "h"), <<>>, FALSE, <<<<Tok(1, "h"), Tok(1, "z")>>>>, FALSE),
     Args(<<>>, Tok(1, "h"), <<>>, FALSE, <<>>, FALSE)}

Init ==
    /\ pc = "main"
    /\ args \in LiveArgs \cup SimArgs \cup BadArgs
    /\ hashorder \in IF args.region = <<>> THEN {<<"nyc", "sfo">>} ELSE HashOrders
    /\ policies = <<>>
    /\ min_age = 0
    /\ now = 0
    /\ tick = 0
    /\ end = 0
    /\ snapshot_id = 0
    /\ droplets = 0
    /\ di = 0
    /\ processed = {}
    /\ snapshots = <<>>
    /\ result = NoResult
    /\ sent = <<>>
    /\ error = "none"
    /\ status = 0
    /\ ret = NoRetention
    /\ again = NoRetention
    /\ clean = NoRetention
    /\ twin = <<>>

\* The run ends with exception exc.
Exit(exc) ==
    /\ pc' = "exit"
    /\ error' = exc
    /\ status' = ExitStatus(exc)

\* main returns.
Return ==
    /\ pc' = "exit"
    /\ error' = "none"
    /\ status' = 0

\* The --simulate argument: split at ':' and both parts parsed.
ParseSimulate(simulate) ==
    IF Len(simulate) # 2 THEN Raise("ValueError")
    ELSE LET i == parse_interval(simulate[1])
             d == parse_interval(simulate[2])
         IN IF i.err # "none" THEN Raise(i.err)
            ELSE IF d.err # "none" THEN Raise(d.err)
            ELSE Ok([interval |-> i.val, duration |-> d.val])

\* main up to its first request (live) or to the simulation loop: the
\* token, the --snapshot age, the policies, the reference time and the
\* --simulate argument, in this order.  utcnow() is LastHour.
Start ==
    /\ pc = "main"
    /\ LET simulate == args.simulate # <<>>
           token == simulate \/ args.token
           age == parse_interval(args.snapshot)
           pols == ParsePolicies(args.keep)
           sim == IF simulate THEN ParseSimulate(args.simulate[1]) ELSE Ok(<<>>)
       IN /\ args' = [args EXCEPT !.dryrun = simulate \/ args.dryrun, !.token = token]
          /\ IF ~token
             THEN /\ pc' = "exit"
                  /\ error' = "fatal: must pass API token"
                  /\ status' = 0
                  /\ UNCHANGED <<min_age, policies, now, tick, end>>
             ELSE IF age.err # "none"
             THEN Exit(age.err) /\ UNCHANGED <<min_age, policies, now, tick, end>>
             ELSE IF pols.err # "none"
             THEN /\ Exit(pols.err)
                  /\ min_age' = age.val
                  /\ UNCHANGED <<policies, now, tick, end>>
             ELSE /\ min_age' = age.val
                  /\ policies' = pols.val
                  /\ now' = LastHour
                  /\ IF sim.err # "none"
                     THEN Exit(sim.err) /\ UNCHANGED <<tick, end>>
                     ELSE IF simulate
                     THEN /\ tick' = sim.val.interval
                          /\ end' = LastHour + sim.val.duration
                          /\ pc' = "simulate"
                          /\ UNCHANGED <<error, status>>
                     ELSE /\ pc' = "list_droplets"
                          /\ UNCHANGED <<tick, end, error, status>>
    /\ UNCHANGED <<hashorder, snapshot_id, droplets, di, processed, snapshots, result,
                   sent, ret, again, clean, twin>>

\* api('get', 'droplets?tag_name=...') and r.json()['droplets'].  The
\* request is sent whatever --dryrun says.  A network fault raises in
\* requests; a 4xx answer has no 'droplets' key (KeyError).
ListDroplets ==
    /\ pc = "list_droplets"
    /\ sent' = api(Call("get", "droplets", ""), FALSE)
    /\ \E answer \in {"ok", "4xx", "neterr"}, n \in 0..MaxDroplets :
          IF answer = "ok"
          THEN /\ droplets' = n
               /\ di' = 1
               /\ IF n = 0 THEN Return ELSE pc' = "droplet" /\ UNCHANGED <<error, status>>
          ELSE /\ Exit(IF answer = "4xx" THEN "KeyError" ELSE "ConnectionError")
               /\ UNCHANGED <<droplets, di>>
    /\ UNCHANGED <<args, hashorder, policies, min_age, now, tick, end, snapshot_id,
                   processed, snapshots, result, ret, again, clean, twin>>

\* A droplet's snapshots as the API lists them: autosnapshots and, with
\* 'foreign', one snapshot whose name does not hold the prefix.
Listed(times, foreign, base) ==
    Listing(times, base, <<"nyc">>)
    \o (IF foreign
        THEN <<Snapshot(base + Len(times) + 1, <<"other", 0>>, 0, <<"nyc">>)>>
        ELSE <<>>)

ListedChoices ==
    {[times |-> ts, foreign |-> f] :
        ts \in SeqsUpTo(Hours, MaxListed), f \in BOOLEAN}

\* [snapshot for snapshot in ... if prefix in snapshot['name']]
Autosnapshots(listed) ==
    LET HasPrefix(snapshot) == snapshot.name[1] = "auto"
    IN SelectSeq(listed, HasPrefix)

\* What can go wrong in one turn of the loop: request number 'at' of the
\* turn (1 is the listing request, k + 1 the k-th request process_droplet
\* sends) gets a 4xx answer or a network fault.
Faults ==
    {[at |-> 0, kind |-> "none"]}
    \cup {[at |-> k, kind |-> f] : k \in 1..MaxRaise, f \in {"4xx", "neterr"}}

\* One turn of the loop over the droplets: the listing request, the filter
\* and process_droplet.
ProcessNextDroplet ==
    /\ pc = "droplet"
    /\ \E l \in ListedChoices :
       \E p \in {process_droplet(
                    di,
                    Autosnapshots(Listed(l.times, l.foreign, (di - 1) * (MaxListed + 1))),
                    policies, min_age, now, args.region, args.dryrun, hashorder)} :
       \E fault \in Faults :
          IF fault.at = 1
          THEN /\ Exit(IF fault.kind = "4xx" THEN "KeyError" ELSE "ConnectionError")
               /\ sent' = api(Call("get", "snapshots", di), FALSE)
               /\ UNCHANGED <<snapshots, result, processed>>
          ELSE /\ result' = Raised(p, IF fault.kind = "neterr" THEN fault.at - 1 ELSE 0)
               /\ snapshots' = result'.ret.sorted
               /\ sent' = api(Call("get", "snapshots", di), FALSE) \o result'.sent
               /\ IF result'.raised # "none"
                  THEN Exit(result'.raised) /\ UNCHANGED processed
                  ELSE /\ processed' = processed \cup {di}
                       /\ pc' = "processed"
                       /\ UNCHANGED <<error, status>>
    /\ UNCHANGED <<args, hashorder, policies, min_age, now, tick, end, snapshot_id,
                   droplets, di, ret, again, clean, twin>>

\* The loop goes on to the next droplet, or main returns after the last:
\* the names snapshots and r are bound anew in the next turn.
LoopDroplets ==
    /\ pc = "processed"
    /\ snapshots' = <<>>
    /\ result' = NoResult
    /\ sent' = <<>>
    /\ IF di = droplets
       THEN Return /\ UNCHANGED di
       ELSE /\ pc' = "droplet"
            /\ di' = di + 1
            /\ UNCHANGED <<error, status>>
    /\ UNCHANGED <<args, hashorder, policies, min_age, now, tick, end, snapshot_id,
                   droplets, processed, ret, again, clean, twin>>

\* (mutant) every simulated snapshot gets the identifier 0.
NewSnapshotSameId(id, name, t) == Snapshot(0, name, t, <<>>)

\* The dictionary appended for a new snapshot.
NewSnapshot(id, name, t) == Snapshot(id, name, t, <<>>)

\* The list after one iteration: the survivors and, if process_droplet
\* returned a name, the new snapshot at the end.
Appended(p, id, t) ==
    IF p.due THEN Append(p.survivors, NewSnapshot(id, p.snapshot_name, t))
    ELSE p.survivors

\* Another order in which a process may iterate the same set of regions
\* (string hashes differ from one process to the next).
OtherOrder(order) == CHOOSE o \in HashOrders : o # order

\* One iteration of the simulation loop (while now < end).  'twin' is the
\* list of a second process that runs the same command line at the same
\* start time.
SimulationTick ==
    /\ pc = "simulate"
    /\ now < end
    /\ snapshot_id < MaxTicks
    /\ result' = process_droplet(0, snapshots, policies, min_age, now, args.region,
                                 args.dryrun, hashorder)
    /\ sent' = result'.sent
    /\ snapshots' = Appended(result', snapshot_id, now)
    /\ twin' = Appended(process_droplet(0, twin, policies, min_age, now, args.region,
                                        args.dryrun, OtherOrder(hashorder)),
                        snapshot_id, now)
    /\ snapshot_id' = snapshot_id + 1
    /\ now' = now + tick
    /\ UNCHANGED <<pc, args, hashorder, policies, min_age, tick, end, droplets, di,
                   processed, error, status, ret, again, clean>>

\* The loop ends and the remaining snapshots are printed.
SimulationEnd ==
    /\ pc = "simulate"
    /\ ~(now < end)
    /\ Return
    /\ sent' = <<>>
    /\ UNCHANGED <<args, hashorder, policies, min_age, now, tick, end, snapshot_id,
                   droplets, di, processed, snapshots, result, ret, again, clean, twin>>

Next ==
    \/ Start
    \/ ListDroplets
    \/ ProcessNextDroplet
    \/ LoopDroplets
    \/ SimulationTick
    \/ SimulationEnd

Spec == Init /\ [][Next]_vars

\* ---- properties of the retention engine (under RetSpec) ----

Called == pc \in {"ret_first", "ret_second"}
Ids(snaps) == {s.id : s \in Range(snaps)}
Kept(g) == LET Alive(s) == s.id \notin Range(ret.deleted) IN SelectSeq(g.members, Alive)
Groups == Range(ret.by_policy)
GroupsOf(s) == {i \in 1..Len(ret.by_policy) : s \in Range(ret.by_policy[i].members)}
\* The tiers as given on the command line, before main sorts them.
GivenTiers == Range(ParseKeeps(args.keep).val)

\* C1 -- idempotence: the engine called again on the survivors of a first
\* call, with the same tiers and reference time, returns exactly those
\* survivors in the same order and asks for no deletion.
C1_Idempotent ==
    pc = "ret_second" =>
        /\ again.survivors = ret.survivors
        /\ again.deleted = <<>>
        /\ again.calls = <<>>

C1_Witness ==
    /\ pc = "ret_second"
    /\ ret.deleted # <<>>
    /\ Len(ret.survivors) >= 2
    /\ Len(policies) = 2

\* C3 -- tier assignment: with the tiers given in any order, a snapshot is
\* filed under at most one tier; that tier's threshold is the largest
\* threshold not above the snapshot's age; a snapshot younger than every
\* threshold is filed under none.
C3_TierAssignment ==
    Called =>
        \A s \in Range(snapshots) :
            LET a == now - strptime(s.created_at)
                reached == {p.age : p \in {q \in GivenTiers : q.age <= a}}
            IN /\ Cardinality(GroupsOf(s)) <= 1
               /\ reached = {} => GroupsOf(s) = {}
               /\ reached # {} =>
                    \E i \in GroupsOf(s) :
                        /\ ret.by_policy[i].key.age \in reached
                        /\ \A x \in reached : x <= ret.by_policy[i].key.age

C3_Witness ==
    /\ Called
    /\ Len(args.keep) = 2
    /\ parse_interval(args.keep[1][2]).val < parse_interval(args.keep[2][2]).val
    /\ Len(ret.by_policy) = 2
    /\ \E s \in Range(snapshots) : GroupsOf(s) = {}

\* C4 -- spacing: two consecutive kept snapshots of one tier are at least
\* the tier's interval apart, and a tier with interval zero keeps none.
C4_Spacing ==
    Called =>
        \A g \in Groups :
            /\ g.key.interval = 0 => Kept(g) = <<>>
            /\ \A i \in 1..(Len(Kept(g)) - 1) :
                  strptime(Kept(g)[i + 1].created_at) - strptime(Kept(g)[i].created_at)
                      >= g.key.interval

C4_Witness ==
    /\ Called
    /\ \E g \in Groups : Len(Kept(g)) >= 2
    /\ \E g \in Groups : g.key.interval = 0 /\ g.members # <<>>

\* C5 -- oldest-bias: a tier with a non-zero interval keeps its oldest
\* snapshot, and each snapshot deleted in it lies less than the interval
\* after a kept snapshot of the tier that precedes it (in the specification's
\* example: ids 1..4 aged 10, 9, 8, 1 days, 1 and 4 survive, 2 and 3 go).
C5_OldestBias ==
    Called =>
        /\ \A g \in Groups :
              g.key.interval # 0 =>
                /\ g.members[1].id \notin Range(ret.deleted)
                /\ \A j \in 1..Len(g.members) :
                      g.members[j].id \in Range(ret.deleted) =>
                        \E i \in 1..(j - 1) :
                            /\ g.members[i].id \notin Range(ret.deleted)
                            /\ strptime(g.members[j].created_at)
                                 - strptime(g.members[i].created_at) < g.key.interval
                            /\ strptime(g.members[j].created_at)
                                 - strptime(g.members[i].created_at) >= 0
                /\ (\A j \in 1..Len(g.members) :
                        strptime(g.members[j].created_at)
                          - strptime(g.members[1].created_at) < g.key.interval)
                     => Ids(Kept(g)) = {g.members[1].id}
        /\ args = ExampleArgs =>
              /\ ret.deleted = <<2, 3>>
              /\ Ids(ret.survivors) = {1, 4}
              /\ GroupsOf(snapshots[4]) = {}

C5_Witness ==
    /\ pc = "ret_first"
    /\ args = ExampleArgs
    /\ ret.deleted = <<2, 3>>

\* C6 -- exemption: a snapshot younger than every tier's threshold is among
\* the survivors and no deletion is asked for it, whatever the intervals
\* and the other snapshots.
C6_Exemption ==
    Called =>
        \A s \in Range(snapshots) :
            (\A p \in Range(policies) : now - strptime(s.created_at) < p.age) =>
                /\ s \in Range(ret.survivors)
                /\ s.id \notin Range(ret.deleted)
                /\ \A c \in Range(ret.calls) : c.target # s.id

C6_Witness ==
    /\ Called
    /\ policies # <<>>
    /\ \E p \in Range(policies) : p.interval = 0
    /\ ret.deleted # <<>>
    /\ \E s \in Range(snapshots) :
          \A p \in Range(policies) : now - strptime(s.created_at) < p.age

\* ---- properties of process_droplet and main (under Spec) ----

\* A cycle of process_droplet has run to its end and 'result' holds it.
Cycle == pc = "processed" \/ (pc = "simulate" /\ snapshot_id > 0)
Mutating(c) == c.type \in {"delete", "transfer", "snapshot"}
TransfersFor(calls, id) ==
    LET Hit(c) == c.type = "transfer" /\ c.target = id IN SelectSeq(calls, Hit)

\* C2 -- scheduler decision: in every cycle a new snapshot is requested if
\* and only if the survivors the engine returned in that cycle are none or
\* the most recent survivor is at least the minimum age old.
C2_SchedulerDecision ==
    Cycle =>
        (result.due <=>
            (\/ result.ret.survivors = <<>>
             \/ result.ret.age[Last(result.ret.survivors).id] >= min_age))

\* C7 -- failure isolation: when one request fails (network fault or 4xx
\* answer), every other droplet of the run is still processed and every
\* other request of the cycle is still made.
C7_FailureIsolation ==
    pc = "exit" /\ droplets > 0 =>
        /\ \A d \in 1..droplets : d # di => d \in processed
        /\ result.calls = result.plan

\* C8 -- error exit status: a run that ends because of an error ends with a
\* non-zero status, and a configuration error ends it before any request
\* is sent or droplet processed.
C8_ErrorExitStatus ==
    pc = "exit" /\ error # "none" =>
        /\ status # 0
        /\ error = "ValueError" => sent = <<>> /\ processed = {}

\* C9 -- dry run: with the dry-run flag (given, or implied by --simulate) no
\* delete, transfer or snapshot request reaches the API, while the
\* survivors, the decision and the calls are those of a run without the
\* flag; a simulation sends no request at all.
C9_DryRun ==
    /\ (args.dryrun \/ args.simulate # <<>>) => \A c \in Range(sent) : ~Mutating(c)
    /\ args.simulate # <<>> => sent = <<>>
    /\ Cycle /\ args.dryrun => result.sent = <<>> /\ result.calls = result.plan
    /\ pc = "processed" /\ args.dryrun =>
          LET live == process_droplet(di, snapshots, policies, min_age, now,
                                      args.region, FALSE, hashorder)
          IN /\ result.survivors = live.survivors
             /\ result.due = live.due
             /\ result.calls = live.calls
             /\ live.sent = live.calls

C9_Witness ==
    /\ pc = "processed"
    /\ args.dryrun
    /\ \A type \in {"delete", "transfer", "snapshot"} :
          \E c \in Range(result.calls) : c.type = type
    /\ result.survivors # <<>>
    /\ result.due
    /\ sent = <<Call("get", "snapshots", di)>>

\* C10 -- region sync: the first sync of a snapshot asks for one transfer
\* per missing region; a later sync of the same snapshot with the same
\* regions asks for none.
C10_SyncTwice ==
    /\ [](Cycle /\ args.region # <<>> =>
            \A s \in Range(result.ret.survivors) :
                LET transfers == TransfersFor(result.calls, s.id)
                    missing == Range(args.region) \ Range(s.regions)
                IN /\ {c.arg : c \in Range(transfers)} = missing
                   /\ Len(transfers) = Cardinality(missing))
    /\ [][pc = "simulate" /\ pc' = "simulate" /\ args.region # <<>> =>
            \A s \in Range(result.survivors) :
                TransfersFor(result'.calls, s.id) = <<>>]_vars

C10_Witness ==
    /\ pc = "simulate"
    /\ args.region # <<>>
    /\ \E s \in Range(result.ret.survivors) :
          /\ s.regions # <<>>
          /\ TransfersFor(result.calls, s.id) = <<>>
    /\ \E s \in Range(result.ret.survivors) :
          /\ s.regions = <<>>
          /\ Len(TransfersFor(result.calls, s.id)) = Len(args.region)

\* A simulation is running or has run.
Simulating == args.simulate # <<>> /\ pc \in {"simulate", "exit"} /\ error = "none"

SameSnapshot(a, b) ==
    /\ a.id = b.id
    /\ a.name = b.name
    /\ a.created_at = b.created_at
    /\ Range(a.regions) = Range(b.regions)

C13_InclusiveThreshold ==
    Cycle /\ Len(result.ret.sorted) = 1 /\ Len(result.ret.survivors) = 1 =>
        (result.due <=> result.ret.age[result.ret.sorted[1].id] >= min_age)

C13_Witness ==
    /\ pc = "processed"
    /\ Len(result.ret.sorted) = 1
    /\ Len(result.ret.survivors) = 1
    /\ min_age > 0
    /\ result.ret.age[result.ret.sorted[1].id] = min_age
    /\ result.due

\* C17 -- simulation snapshot creation: a tick adds at most one snapshot to
\* the survivors, and only when the scheduler reports one due; the new one
\* is created at the current clock with no region and a fresh id; in every
\* simulation state the ids are pairwise distinct and the list ascends by
\* creation time.
C17_SimulationCreation ==
    /\ [](Simulating =>
            /\ \A i, j \in 1..Len(snapshots) :
                  /\ i # j => snapshots[i].id # snapshots[j].id
                  /\ i < j => strptime(snapshots[i].created_at)
                                <= strptime(snapshots[j].created_at))
    /\ [][pc = "simulate" /\ snapshot_id' # snapshot_id =>
            IF result'.due
            THEN /\ Len(snapshots') = Len(result'.survivors) + 1
                 /\ SubSeq(snapshots', 1, Len(result'.survivors)) = result'.survivors
                 /\ Last(snapshots').created_at = strftime(now)
                 /\ Last(snapshots').regions = <<>>
                 /\ Last(snapshots').id \notin Ids(snapshots)
            ELSE snapshots' = result'.survivors]_vars

C17_Witness ==
    /\ pc = "simulate"
    /\ snapshot_id >= 3
    /\ Len(snapshots) >= 2
    /\ ~result.due

\* C18 -- immutability: from one simulation tick to the next a live
\* snapshot keeps its id, name and creation timestamp and loses no region;
\* a snapshot that survived a cycle with regions given holds them all, and
\* the survivors of a cycle are snapshots of its input.
C18_Immutable ==
    /\ [](Cycle =>
            \A q \in Range(result.survivors) :
                /\ Range(args.region) \subseteq Range(q.regions)
                /\ \E s \in Range(result.ret.sorted) :
                      /\ s.id = q.id
                      /\ s.name = q.name
                      /\ s.created_at = q.created_at
                      /\ Range(s.regions) \subseteq Range(q.regions))
    /\ [][pc = "simulate" =>
            \A s \in Range(snapshots), q \in Range(snapshots') :
                s.id = q.id =>
                    /\ s.name = q.name
                    /\ s.created_at = q.created_at
                    /\ Range(s.regions) \subseteq Range(q.regions)]_vars

C18_Witness ==
    /\ pc = "simulate"
    /\ args.region # <<>>
    /\ snapshot_id >= 3
    /\ \E s \in Range(snapshots) : s.regions = <<>>
    /\ \E s \in Range(result.ret.sorted) :
          s.regions # <<>> /\ s.id \in Ids(snapshots)

\* C19 -- oldest snapshot persists: when every tier has a non-zero
\* interval, a snapshot of the least creation time of the input is among
\* the survivors; in a simulation the list is never empty after the first
\* tick and the first snapshot created is still in it, also at the end.
C19_OldestPersists ==
    (\A p \in Range(policies) : p.interval # 0) =>
        /\ Cycle /\ result.ret.sorted # <<>> =>
              \E s \in Range(result.ret.survivors) :
                  \A q \in Range(result.ret.sorted) :
                      strptime(s.created_at) <= strptime(q.created_at)
        /\ Simulating /\ snapshot_id > 0 =>
              /\ snapshots # <<>>
              /\ \E s \in Range(snapshots) : s.id = 0

C19_Witness ==
    /\ Simulating
    /\ pc = "exit"
    /\ policies # <<>>
    /\ \A p \in Range(policies) : p.interval # 0
    /\ snapshot_id >= 3
    /\ result.ret.deleted # <<>>
    /\ \E s \in Range(snapshots) : s.id = 0

\* C14 -- simulation termination: for every tick interval and duration the
\* parser accepted, the loop stops: its only exit is now >= end, so every
\* iteration must bring the clock closer to start + duration.
C14_SimulationTerminates ==
    [][pc = "simulate" /\ snapshot_id' # snapshot_id => end - now' < end - now]_vars

\* ---- the retention engine on other listings (under RetSpec, OrderSpec) ----

DeletesOf(calls, id) ==
    {i \in 1..Len(calls) : calls[i].type = "delete" /\ calls[i].target = id}
Times(snaps) == [i \in 1..Len(snaps) |-> strptime(snaps[i].created_at)]
DistinctTimes(snaps) ==
    \A i, j \in 1..Len(snaps) : i # j => snaps[i].created_at # snaps[j].created_at
\* The reference time of the first call, read from what it wrote.
CalledAt(r) ==
    IF r.sorted = <<>> THEN LastHour
    ELSE r.created_dt[r.sorted[1].id] + r.age[r.sorted[1].id]

\* C15 -- partition: after one call every input snapshot is either among
\* the survivors or the target of exactly one delete request, never both and
\* never neither; the survivors are input snapshots, ascend by creation
\* timestamp, and are none when the input is empty.
C15_Partition ==
    Called =>
        /\ \A s \in Range(snapshots) :
              \/ s \in Range(ret.survivors) /\ DeletesOf(ret.calls, s.id) = {}
              \/ s \notin Range(ret.survivors)
                   /\ Cardinality(DeletesOf(ret.calls, s.id)) = 1
        /\ \A c \in Range(ret.calls) : c.type = "delete" /\ c.target \in Ids(snapshots)
        /\ Range(ret.survivors) \subseteq Range(snapshots)
        /\ Cardinality(Ids(ret.survivors)) = Len(ret.survivors)
        /\ \A i, j \in 1..Len(ret.survivors) :
              i < j => Times(ret.survivors)[i] <= Times(ret.survivors)[j]
        /\ snapshots = <<>> => ret.survivors = <<>>

C15_Witness ==
    /\ pc = "ret_first"
    /\ Len(snapshots) = 3
    /\ Times(snapshots)[1] > Times(snapshots)[3]
    /\ Len(ret.deleted) = 1
    /\ Len(ret.survivors) = 2

\* C16 -- input-order independence (as claimed): for fixed tiers and
\* reference time the survivor set is the same for every ordering of the
\* same input, also when two snapshots have the same creation timestamp.
C16_AnyOrder ==
    pc = "ret_reorder" => Ids(again.survivors) = Ids(ret.survivors)

\* C16 (amended) -- every ordering of the same input yields survivors with
\* the same creation timestamps, and the same survivors when no two input
\* snapshots share a creation timestamp.
C16_AnyOrderDistinct ==
    pc = "ret_reorder" =>
        /\ Times(again.survivors) = Times(ret.survivors)
        /\ Len(again.deleted) = Len(ret.deleted)
        /\ DistinctTimes(snapshots) => again.survivors = ret.survivors

C16_Witness ==
    /\ pc = "ret_reorder"
    /\ Len(snapshots) = 3
    /\ DistinctTimes(snapshots)
    /\ snapshots # ret.sorted
    /\ Times(snapshots)[1] > Times(snapshots)[2]
    /\ ret.deleted # <<>>
    /\ ret.survivors # <<>>

\* C11 -- reconciliation (as claimed): when the deletes of some of the
\* deleted snapshots failed, the next call, at the same or a later reference
\* time, on the survivors and those snapshots returns the survivors of a
\* call at that time on the survivors alone.
C11_Reconciles ==
    pc = "ret_reconcile" => Ids(again.survivors) = Ids(clean.survivors)

\* C11 (amended) -- at the same reference time the next call returns
\* survivors with the creation timestamps of the first call's survivors,
\* and exactly those survivors when no two listed snapshots share a
\* creation timestamp.
C11_ReconcilesSameTime ==
    pc = "ret_reconcile" /\ now = CalledAt(ret) =>
        /\ clean.survivors = ret.survivors
        /\ Times(again.survivors) = Times(ret.survivors)
        /\ DistinctTimes(snapshots) => again.survivors = ret.survivors

C11_Witness ==
    /\ pc = "ret_reconcile"
    /\ now = CalledAt(ret)
    /\ DistinctTimes(snapshots)
    /\ Len(ret.deleted) >= 1
    /\ Len(snapshots) > Len(ret.survivors)
    /\ Len(ret.survivors) >= 1
    /\ again.deleted # <<>>

====
